---- MODULE Spec2Model ----
(***************************************************************************)
(* Validation and persistence of the Question form tree of the polls CMS:  *)
(* QuestionForm (cms/polls/views/question.py) with its three inline        *)
(* formsets and its nested max_vote_count_control sub-form, the rows of    *)
(* the formsets being FormSetForm instances (cms/utils/forms.py).          *)
(*                                                                         *)
(* One behaviour is one request: a form tree bound to submitted data is    *)
(* validated (IsValid) and, when valid, saved parent first, then the       *)
(* nested form, then the formsets.                                         *)
(***************************************************************************)
EXTENDS Integers, Sequences, FiniteSets, TLC

\* ------------------------------------------------------------------ bounds
MaxTime == 2        \* vote_start / vote_end range over 1..MaxTime
MaxVotes == 2       \* vote counts range over 0..MaxVotes
MaxChoices == 2     \* rows of the choices formset; selections reach one more
MaxRows == 2        \* rows of the attachments and q_followers formsets
MaxUsers == 2       \* distinct followers

\* --------------------------------------------------------- python values
\* Python's None: what cleaned_data.get(key, None) returns for a key that is
\* absent (its field failed validation, or add_error removed it) or empty.
None == -100
\* Submitted value of a field whose own validation failed.
Invalid == None - 1

NON_FIELD_ERRORS == "__all__"

IntFields == {"vote_start", "vote_end", "total_vote_count",
              "max_vote_count", "min_selection", "max_selection"}
ErrorKeys == IntFields \cup {"has_max_vote_count", NON_FIELD_ERRORS,
                             "max_vote_count_control",
                             "attachments", "q_followers", "choices"}

\* The aggregate error of QuestionForm.clean carries no code; its message
\* identifies it.
AGGREGATE == "Please correct the error(s) below"

\* ValidationError(message, code, params={'len': n})
Err(code) == [code |-> code, len |-> None]
ErrLen(code, n) == [code |-> code, len |-> n]

HasCode(errs, code) == \E i \in 1..Len(errs) : errs[i].code = code
CountCode(errs, code) == Cardinality({i \in 1..Len(errs) : errs[i].code = code})

\* ------------------------------------------------------------ form state
\* cleaned_data.get(name, None) after the field's own validation.
Cleaned(v) == IF v = Invalid THEN None ELSE v

\* The bound QuestionForm after _clean_fields and super().clean(): every
\* field that validated is in cleaned_data, every field that did not holds
\* its own error.
BoundForm(s) ==
    [cleaned_data |->
        [vote_start |-> Cleaned(s.vote_start),
         vote_end |-> Cleaned(s.vote_end),
         total_vote_count |-> Cleaned(s.total_vote_count),
         has_max_vote_count |-> s.has_max_vote_count,
         max_vote_count |-> Cleaned(s.max_vote_count),
         min_selection |-> Cleaned(s.min_selection),
         max_selection |-> Cleaned(s.max_selection)],
     errors |-> [k \in ErrorKeys |->
                    IF k \in IntFields /\ s[k] = Invalid
                    THEN <<Err("invalid")>> ELSE <<>>],
     raised |-> ""]

\* form.add_error(field, error): the error is appended to the field's list
\* and the field leaves cleaned_data.
AddError(form, field, error) ==
    [form EXCEPT !.errors[field] = Append(@, error),
                 !.cleaned_data = IF field \in IntFields
                                  THEN [@ EXCEPT ![field] = None] ELSE @]

\* len(self.errors): the number of keys of the error dict.
LenErrors(form) == Cardinality({k \in ErrorKeys : form.errors[k] # <<>>})

\* --------------------------------------------------- related-field checks
check_vote_end_ge(form) ==
    LET vote_end == form.cleaned_data.vote_end
        vote_start == form.cleaned_data.vote_start
    IN IF vote_start # None /\ vote_end # None /\ vote_start >= vote_end
       THEN AddError(form, "vote_end", Err("vote_end_too_early"))
       ELSE form

check_vote_end(form) ==
    LET vote_end == form.cleaned_data.vote_end
        vote_start == form.cleaned_data.vote_start
    IN IF vote_start # None /\ vote_end # None /\ vote_start > vote_end
       THEN AddError(form, "vote_end", Err("vote_end_too_early"))
       ELSE form

check_max_vote_count(form) ==
    LET max_vote_count == form.cleaned_data.max_vote_count
        has_max_vote_count == form.cleaned_data.has_max_vote_count
        f1 == IF max_vote_count = None /\ has_max_vote_count
              THEN AddError(form, "max_vote_count",
                            Err("max_vote_count_required"))
              ELSE form
    IN IF max_vote_count # None /\ max_vote_count < 0
       THEN AddError(f1, "max_vote_count", Err("max_vote_count_positive"))
       ELSE f1

\* len_choices is len(self.formsets['choices']): every row of the formset.
check_selection_bounds(form, len_choices) ==
    LET min_selection == form.cleaned_data.min_selection
        max_selection == form.cleaned_data.max_selection
        f1 == IF /\ min_selection # None
                 /\ max_selection # None
                 /\ min_selection > max_selection
              THEN AddError(form, "max_selection",
                            Err("max_selection_too_small"))
              ELSE form
    IN IF min_selection # None /\ min_selection > len_choices
       THEN AddError(f1, "min_selection",
                     ErrLen("max_selection_too_small", len_choices))
       ELSE f1

\* Python truth value of an integer or None.
Truthy(v) == v # None /\ v # 0

\* total_vote_count > max_vote_count is evaluated whenever max_vote_count is
\* truthy; with total_vote_count None the comparison raises TypeError.
check_total_vote_count(form) ==
    LET total_vote_count == form.cleaned_data.total_vote_count
        has_max_vote_count == form.cleaned_data.has_max_vote_count
        max_vote_count == form.cleaned_data.max_vote_count
    IN IF ~has_max_vote_count THEN form
       ELSE IF ~Truthy(max_vote_count) THEN form
       ELSE IF total_vote_count = None
            THEN [form EXCEPT !.raised = "TypeError"]
       ELSE IF total_vote_count > max_vote_count
            THEN AddError(form, "max_vote_count",
                          Err("total_vote_count_too_big"))
       ELSE form

\* --------------------------------------------------------------- formsets
\* A row of an inline formset (a FormSetForm) after its own full_clean:
\*   follower  cleaned follower of a q_followers row (None when missing)
\*   del       the row is marked for deletion (_should_delete_form)
\*   err       len(form.errors) of the row
\*   question  the parent reference the row's instance holds before save
Row(follower, del, err, question) ==
    [follower |-> follower, del |-> del, err |-> err, question |-> question]

\* The formset before formset.full_clean() has run (_errors is None).
Unvalidated ==
    [validated |-> FALSE, form_errors |-> 0, non_form_errors |-> <<>>,
     raised |-> ""]

\* Sum of len(form_errors) over the rows not marked for deletion: deleted
\* rows are left out of formset.errors.
RECURSIVE SumFormErrors(_)
SumFormErrors(forms) ==
    IF forms = <<>> THEN 0
    ELSE (IF Head(forms).del THEN 0 ELSE Head(forms).err)
         + SumFormErrors(Tail(forms))

LiveRows(forms) == {i \in 1..Len(forms) : ~forms[i].del}

\* choices = InlineFormSetField(..., validate_min=True, min_num=2)
ChoicesMinNum == 2

\* self.add_error(...) called on the formset. add_error is a method of
\* django.forms.BaseForm; BaseInlineFormSet, BaseModelFormSet and BaseFormSet
\* define none, so the attribute lookup raises AttributeError.
FormSetAddError(fs, field, error) == [fs EXCEPT !.raised = "AttributeError"]

In(x, list) == \E j \in 1..Len(list) : list[j] = x

\* The loop of QuestionFollowersFormSet.clean from row i on, followers being
\* the list built so far.
RECURSIVE FollowersLoop(_, _, _, _)
FollowersLoop(fs, forms, i, followers) ==
    IF i > Len(forms) THEN fs
    ELSE IF forms[i].del THEN FollowersLoop(fs, forms, i + 1, followers)
    ELSE LET follower == Cleaned(forms[i].follower)
         IN IF In(follower, followers)
            THEN FormSetAddError(fs, NON_FIELD_ERRORS, Err("unique"))
            ELSE FollowersLoop(fs, forms, i + 1, Append(followers, follower))

QuestionFollowersFormSetClean(fs, forms) == FollowersLoop(fs, forms, 1, <<>>)

\* formset.full_clean(), run by the first formset.errors or
\* formset.total_error_count(): the rows' errors are collected, the minimum
\* number of rows is checked where validate_min is set, then clean() runs.
FormSetFullClean(name, forms) ==
    LET fs == [validated |-> TRUE, form_errors |-> SumFormErrors(forms),
               non_form_errors |-> <<>>, raised |-> ""]
    IN IF name = "choices" /\ Cardinality(LiveRows(forms)) < ChoicesMinNum
       THEN [fs EXCEPT !.non_form_errors = <<Err("too_few_forms")>>]
       ELSE IF name = "q_followers"
       THEN QuestionFollowersFormSetClean(fs, forms)
       ELSE fs

total_error_count(fs) == Len(fs.non_form_errors) + fs.form_errors

\* ---------------------------------------------------- QuestionForm.clean
\* The four checks, then the count over the form and its formsets in the
\* order of declaration. An exception leaves clean() where it is raised.
QuestionFormClean(form, rows) ==
    LET f4 == check_total_vote_count(
                  check_selection_bounds(
                      check_max_vote_count(check_vote_end(form)),
                      Len(rows.choices)))
        a == FormSetFullClean("attachments", rows.attachments)
        q == FormSetFullClean("q_followers", rows.q_followers)
        c == FormSetFullClean("choices", rows.choices)
        error_count == LenErrors(f4) + total_error_count(a)
                       + total_error_count(q) + total_error_count(c)
    IN IF f4.raised # ""
       THEN [form |-> f4,
             formsets |-> [attachments |-> Unvalidated,
                           q_followers |-> Unvalidated,
                           choices |-> Unvalidated]]
       ELSE IF q.raised # ""
       THEN [form |-> [f4 EXCEPT !.raised = q.raised],
             formsets |-> [attachments |-> a, q_followers |-> q,
                           choices |-> Unvalidated]]
       ELSE [form |-> IF error_count > 0
                      THEN AddError(f4, NON_FIELD_ERRORS,
                                    ErrLen(AGGREGATE, error_count))
                      ELSE f4,
             formsets |-> [attachments |-> a, q_followers |-> q,
                           choices |-> c]]

\* SuperModelForm.full_clean: the base full_clean (fields, then clean()) and
\* after it the errors of the nested form and of every nested formset that
\* is invalid and has rows are stored under the composite field's name.
SuperFullClean(form, rows, sub) ==
    LET r == QuestionFormClean(form, rows)
        Merged(k) ==
            IF k = "max_vote_count_control"
            THEN [i \in 1..sub |-> Err("nested")]
            ELSE IF /\ k \in {"attachments", "q_followers", "choices"}
                    /\ total_error_count(r.formsets[k]) > 0
                    /\ LiveRows(rows[k]) # {}
            THEN <<ErrLen("nested", total_error_count(r.formsets[k]))>>
            ELSE r.form.errors[k]
    IN IF r.form.raised # "" THEN r
       ELSE [r EXCEPT !.form.errors = [k \in ErrorKeys |-> Merged(k)]]

\* form.is_valid(): bound and without errors.
IsValidForm(form) == \A k \in ErrorKeys : form.errors[k] = <<>>

\* ------------------------------------------------------------------- save
\* ModelForm.save(commit): the instance handed over is written when commit
\* is set and only returned otherwise.
BaseSave(kind, instance, commit) ==
    [handed |-> [kind |-> kind, question |-> instance.question,
                 commit |-> commit],
     written |-> IF commit
                 THEN <<[kind |-> kind, op |-> "save",
                         question |-> instance.question]>>
                 ELSE <<>>]

FormSetFormSaveNoParent(kind, row, parent_instance, commit) ==
    BaseSave(kind, row, commit)

FormSetFormSaveParentLate(kind, row, parent_instance, commit) ==
    LET r == BaseSave(kind, row, commit)
    IN [r EXCEPT !.handed.question = parent_instance]

\* FormSetForm.save(commit): setattr(instance, parent_instance_field,
\* parent_instance), then super().save(commit).
FormSetFormSave(kind, row, parent_instance, commit) ==
    BaseSave(kind, [row EXCEPT !.question = parent_instance], commit)

\* The rows of one formset saved in order (formset.save(commit)): a row
\* marked for deletion is deleted when commit is set, every other row is
\* saved through FormSetForm.save.
RECURSIVE SaveRows(_, _, _, _)
SaveRows(kind, forms, parent_instance, commit) ==
    IF forms = <<>> THEN [handed |-> <<>>, written |-> <<>>]
    ELSE LET rest == SaveRows(kind, Tail(forms), parent_instance, commit)
             row == Head(forms)
             one == FormSetFormSave(kind, row, parent_instance, commit)
         IN IF row.del
            THEN [handed |-> rest.handed,
                  written |-> (IF commit
                               THEN <<[kind |-> kind, op |-> "delete",
                                       question |-> row.question]>>
                               ELSE <<>>) \o rest.written]
            ELSE [handed |-> <<one.handed>> \o rest.handed,
                  written |-> one.written \o rest.written]

\* ----------------------------------------------------------------- inputs
SeqsUpTo(S, n) == UNION {[1..k -> S] : k \in 0..n}

TimeDom == {None, Invalid} \cup (1..MaxTime)
VotesDom == {None, Invalid} \cup (0..MaxVotes)
MaxVotesDom == {None, Invalid} \cup ((-1)..MaxVotes)
SelDom == {None, Invalid} \cup (0..(MaxChoices + 1))

ChoiceRows == {Row(None, d, 0, "unset") : d \in BOOLEAN}
FollowerRows ==
    {Row(f, d, IF f = Invalid THEN 1 ELSE 0, "unset") :
        f \in {None, Invalid} \cup (1..MaxUsers), d \in BOOLEAN}
AttachmentRows ==
    {Row(None, d, e, q) :
        d \in BOOLEAN, e \in {0, 1}, q \in {"unset", "other_question"}}

TwoChoices == <<Row(None, FALSE, 0, "unset"), Row(None, FALSE, 0, "unset")>>

\* Every part of a submission ranges over its whole bounded domain in one
\* slice of the requests and over a valid and an invalid value in the others.
VoteFull == [vote_start : TimeDom, vote_end : TimeDom]
VoteFew == {[vote_start |-> 1, vote_end |-> 2],
            [vote_start |-> 2, vote_end |-> 1]}
CountFull == [has_max_vote_count : BOOLEAN, max_vote_count : MaxVotesDom,
              total_vote_count : VotesDom]
CountFew == {[has_max_vote_count |-> FALSE, max_vote_count |-> None,
              total_vote_count |-> 0],
             [has_max_vote_count |-> TRUE, max_vote_count |-> Invalid,
              total_vote_count |-> 0]}
SelFull == [min_selection : SelDom, max_selection : SelDom,
            choices : SeqsUpTo(ChoiceRows, MaxChoices)]
SelFew == {[min_selection |-> 0, max_selection |-> 1, choices |-> TwoChoices],
           [min_selection |-> 1, max_selection |-> 0, choices |-> TwoChoices]}
FollowersFull == SeqsUpTo(FollowerRows, MaxRows)
FollowersFew == {<<>>, <<Row(Invalid, FALSE, 1, "unset")>>}
AttachmentsFull == SeqsUpTo(AttachmentRows, MaxRows)
AttachmentsFew == {<<Row(None, FALSE, 0, "other_question")>>,
                   <<Row(None, FALSE, 1, "unset")>>}

\* ------------------------------------------------------------------ state
VARIABLES
    pc,               \* "bound", "invalid", "raised", "valid", "form_saved",
                      \* "forms_saved", "saved"
    submitted,        \* the own fields of QuestionForm as submitted
    rows,             \* the rows of the three formsets as submitted
    sub_form_errors,  \* len(errors) of the max_vote_count_control sub-form
    form,             \* QuestionForm: cleaned_data, errors, raised exception
    formsets,         \* validation state of the three formsets
    commit,           \* the commit argument of the running save
    handed,           \* child instances handed to the base ModelForm.save
    db,               \* writes reaching the database, in order
    row_form,         \* one FormSetForm row under full_clean()
    new_form,         \* a form under construction: the arguments of
                      \* __init__, then what __init__ leaves on the form
    listing,          \* one call of UserFilter.filter_count_gte
    view              \* a create or update view of Question serving a GET

vars == <<pc, submitted, rows, sub_form_errors, form,
          formsets, commit, handed, db, row_form, new_form, listing,
          view>>

\* What a specification that never builds an object keeps in its place.
Absent == [pc |-> "absent"]

\* The objects outside the QuestionForm tree of one POST.
aside == <<row_form, new_form, listing, view>>
NoAside ==
    /\ row_form = Absent
    /\ new_form = Absent
    /\ listing = Absent
    /\ view = Absent

\* The form before is_valid(): no cleaned_data, no errors yet.
NotCleaned ==
    [cleaned_data |->
        [vote_start |-> None, vote_end |-> None, total_vote_count |-> None,
         has_max_vote_count |-> FALSE, max_vote_count |-> None,
         min_selection |-> None, max_selection |-> None],
     errors |-> [k \in ErrorKeys |-> <<>>],
     raised |-> ""]

\* form_class(data): the form tree bound to one request's data.
Bound(v, c, s, f, a, u) ==
    /\ pc = "bound"
    /\ submitted = [vote_start |-> v.vote_start,
                    vote_end |-> v.vote_end,
                    total_vote_count |-> c.total_vote_count,
                    has_max_vote_count |-> c.has_max_vote_count,
                    max_vote_count |-> c.max_vote_count,
                    min_selection |-> s.min_selection,
                    max_selection |-> s.max_selection]
    /\ rows = [attachments |-> a, q_followers |-> f, choices |-> s.choices]
    /\ sub_form_errors = u
    /\ form = NotCleaned
    /\ formsets = [attachments |-> Unvalidated,
                   q_followers |-> Unvalidated,
                   choices |-> Unvalidated]
    /\ commit = FALSE
    /\ handed = <<>>
    /\ db = <<>>
    /\ NoAside

Slice(V, C, S, F, A) ==
    \E v \in V, c \in C, s \in S, f \in F, a \in A, u \in {0, 1} :
        Bound(v, c, s, f, a, u)

Init ==
    \/ Slice(VoteFull, CountFew, SelFew, FollowersFew, AttachmentsFew)
    \/ Slice(VoteFew, CountFull, SelFew, FollowersFew, AttachmentsFew)
    \/ Slice(VoteFew, CountFew, SelFull, FollowersFew, AttachmentsFew)
    \/ Slice(VoteFew, CountFew, SelFew, FollowersFull, AttachmentsFew)
    \/ Slice(VoteFew, CountFew, SelFew, FollowersFew, AttachmentsFull)

\* form.is_valid(): the whole full_clean of the tree.
IsValid ==
    /\ pc = "bound"
    /\ LET r == SuperFullClean(BoundForm(submitted), rows, sub_form_errors)
       IN /\ form' = r.form
          /\ formsets' = r.formsets
          /\ pc' = IF r.form.raised # "" THEN "raised"
                   ELSE IF IsValidForm(r.form) THEN "valid" ELSE "invalid"
    /\ UNCHANGED <<submitted, rows, sub_form_errors, commit,
                   handed, db>>
    /\ UNCHANGED aside

QuestionWrite == [kind |-> "Question", op |-> "save", question |-> ""]

\* SuperModelForm.save(commit), first step: save_form saves the Question.
\* The views call form.save() with commit set.
SaveForm ==
    /\ pc = "valid"
    /\ \E c \in BOOLEAN :
        /\ commit' = c
        /\ db' = IF c THEN Append(db, QuestionWrite) ELSE db
    /\ pc' = "form_saved"
    /\ UNCHANGED <<submitted, rows, sub_form_errors, form,
                   formsets, handed>>
    /\ UNCHANGED aside

\* Second step: save_forms saves the nested max_vote_count_control form,
\* whose instance is the Question itself.
SaveForms ==
    /\ pc = "form_saved"
    /\ db' = IF commit THEN Append(db, QuestionWrite) ELSE db
    /\ pc' = "forms_saved"
    /\ UNCHANGED <<submitted, rows, sub_form_errors, form,
                   formsets, commit, handed>>
    /\ UNCHANGED aside

\* Third step: save_formsets saves the rows of every formset, each row with
\* parent_instance the Question of the form.
SaveFormsets ==
    /\ pc = "forms_saved"
    /\ LET a == SaveRows("Attachment", rows.attachments, "question", commit)
           q == SaveRows("QuestionFollower", rows.q_followers, "question",
                         commit)
           c == SaveRows("Choice", rows.choices, "question", commit)
       IN /\ handed' = handed \o a.handed \o q.handed \o c.handed
          /\ db' = db \o a.written \o q.written \o c.written
    /\ pc' = "saved"
    /\ UNCHANGED <<submitted, rows, sub_form_errors, form,
                   formsets, commit>>
    /\ UNCHANGED aside

Next == IsValid \/ SaveForm \/ SaveForms \/ SaveFormsets

Spec == Init /\ [][Next]_vars

\* The QuestionForm tree where a specification is about another object.
NoQuestionForm ==
    /\ pc = "absent"
    /\ submitted = Absent
    /\ rows = Absent
    /\ sub_form_errors = 0
    /\ form = Absent
    /\ formsets = Absent
    /\ commit = FALSE
    /\ handed = <<>>
    /\ db = <<>>

tree == <<pc, submitted, rows, sub_form_errors, form, formsets, commit,
          handed, db>>

\* ------------------------------------------------- FormSetForm.full_clean
\* The errors one field can hold: a non-empty list of at most MaxErrors.
MaxErrors == 2
ErrorCodes == {"required", "invalid"}
ErrorLists == UNION {[1..n -> ErrorCodes] : n \in 1..MaxErrors}

\* The keys form._errors can have for a row: the fields of the row's form
\* (polls/admin_views.py lists the parent key among them) and the non-field
\* key.
RowFields == {"question", "follower", "ordering"}
RowErrorKeys == RowFields \cup {NON_FIELD_ERRORS}

\* A dict: a function whose domain is the set of its keys.
Dicts(K, V) == UNION {[D -> V] : D \in SUBSET K}
Pop(d, key) == [k \in DOMAIN d \ {key} |-> d[k]]

\* parent_instance_field: '' on FormSetForm itself, 'question' on each of
\* its subclasses.
ParentInstanceFields == {"", "question"}

FormSetFormFullCleanAll(errors, parent_instance_field) ==
    IF parent_instance_field \in DOMAIN errors THEN <<>> ELSE errors

\* FormSetForm.full_clean after super().full_clean() has left errors in
\* self._errors: the entry of the parent key is popped when there is one
\* (an entry always holds at least one error).
FormSetFormFullClean(errors, parent_instance_field) ==
    IF parent_instance_field \in DOMAIN errors
    THEN Pop(errors, parent_instance_field)
    ELSE errors

\* A bound row form before full_clean(); base_errors are the errors its data
\* makes super().full_clean() record.
RowInit ==
    /\ \E e \in Dicts(RowErrorKeys, ErrorLists),
          p \in ParentInstanceFields :
          row_form = [pc |-> "bound", parent_instance_field |-> p,
                      base_errors |-> e, errors |-> <<>>]
    /\ NoQuestionForm
    /\ new_form = Absent
    /\ listing = Absent
    /\ view = Absent

RowFullClean ==
    /\ row_form.pc = "bound"
    /\ row_form' =
          [row_form EXCEPT
              !.pc = "cleaned",
              !.errors = FormSetFormFullClean(row_form.base_errors,
                                              row_form.parent_instance_field)]
    /\ UNCHANGED <<tree, new_form, listing, view>>

RowNext == RowFullClean

RowSpec == RowInit /\ [][RowNext]_vars

\* ------------------------------------------------------- values of Python
PyNone == [type |-> "NoneType"]
PyBool(b) == [type |-> "bool", b |-> b]
\* A string: its text, and the instant t it writes down when the text is a
\* date and time in the format s (t = 0 for every other text).
PyStr(s, t) == [type |-> "str", s |-> s, t |-> t]
PyDatetime(t) == [type |-> "datetime", t |-> t]

\* The format str(datetime) writes and dateparse.parse_datetime reads.
IsoFormat == "%Y-%m-%d %H:%M:%S"
\* Another of the formats a DateTimeField accepts as input.
OtherFormat == "%m/%d/%Y %H:%M:%S"
\* A text in the ISO layout whose day does not exist.
NoSuchDay == "2022-02-30 10:00:00"

bool(v) ==
    CASE v.type = "NoneType" -> FALSE
      [] v.type = "bool" -> v.b
      [] v.type = "str" -> v.s # ""
      [] v.type = "datetime" -> TRUE

str(v) ==
    CASE v.type = "NoneType" -> PyStr("None", 0)
      [] v.type = "bool" -> PyStr(IF v.b THEN "True" ELSE "False", 0)
      [] v.type = "str" -> v
      [] v.type = "datetime" -> PyStr(IsoFormat, v.t)

lower(s) == CASE s = "True" -> "true" [] s = "False" -> "false" [] OTHER -> s

\* dateparse.parse_datetime: the datetime of a text in the ISO layout, None
\* for a text that is not in that layout, ValueError for a text that is in
\* the layout and names no valid date.
parse_datetime(value) ==
    IF value.s = IsoFormat THEN [raised |-> "", value |-> PyDatetime(value.t)]
    ELSE IF value.s = NoSuchDay THEN [raised |-> "ValueError", value |-> PyNone]
    ELSE [raised |-> "", value |-> PyNone]

Get(d, key) == IF key \in DOMAIN d THEN d[key] ELSE PyNone
Update(d, e) ==
    [k \in DOMAIN d \cup DOMAIN e |-> IF k \in DOMAIN e THEN e[k] ELSE d[k]]

\* ------------------------------------------- FieldDataMixin.get_field_value
\* self[field_name].value() of a bound form: what the field's widget reads
\* from the data. CheckboxInput gives False for a missing key, the boolean
\* for 'true' and 'false' in any case, bool(text) otherwise; DateTimeInput
\* gives the text, None for a missing key.
BoundFieldValue(self, field_name) ==
    IF field_name = "has_max_vote_count"
    THEN IF field_name \notin DOMAIN self.data THEN PyBool(FALSE)
         ELSE LET value == self.data[field_name]
              IN IF lower(value.s) \in {"true", "false"}
                 THEN PyBool(lower(value.s) = "true")
                 ELSE PyBool(bool(value))
    ELSE Get(self.data, field_name)

get_field_value_initial(self, field_name) == Get(self.initial, field_name)

get_field_value(self, field_name) ==
    IF self.is_bound
    THEN BoundFieldValue(self, field_name)
    ELSE Get(self.initial, field_name)

\* ------------------------------------------------ MaxVoteCountForm.__init__
MaxVoteCountFormInit(self) ==
    LET toggle == get_field_value(self, "has_max_vote_count")
        has_max_vote_count ==
            Update(self.attrs.has_max_vote_count,
                   [k \in {"data-reload-form"} |-> TRUE])
        max_vote_count ==
            IF bool(toggle)
            THEN Update(self.attrs.max_vote_count,
                        [k \in {"required"} |-> TRUE])
            ELSE Update(self.attrs.max_vote_count,
                        [k \in {"disabled", "value"} |->
                            IF k = "disabled" THEN TRUE ELSE ""])
    IN [self EXCEPT !.pc = "constructed",
                    !.attrs = [has_max_vote_count |-> has_max_vote_count,
                               max_vote_count |-> max_vote_count]]

\* --------------------------------------------------- QuestionForm.__init__
\* set_initial_data: the three formsets show the rows of self.instance when
\* it has an id; a form built without an instance holds a new Question,
\* which has none.
set_initial_data(self) ==
    IF self.instance # None
    THEN [self EXCEPT !.formsets_instance = self.instance]
    ELSE self

\* disable_fields_conditionally: both times are parsed from the text of the
\* live values, then compared with the clock as timestamps.
disable_fields_conditionally(self) ==
    LET vote_start ==
            parse_datetime(str(get_field_value(self, "vote_start")))
        vote_end ==
            parse_datetime(str(get_field_value(self, "vote_end")))
    IN IF vote_start.raised # ""
       THEN [self EXCEPT !.pc = "raised", !.raised = vote_start.raised]
       ELSE IF vote_end.raised # ""
       THEN [self EXCEPT !.pc = "raised", !.raised = vote_end.raised]
       ELSE IF /\ bool(vote_start.value) /\ bool(vote_end.value)
               /\ vote_start.value.t <= self.now
               /\ self.now <= vote_end.value.t
       THEN [self EXCEPT !.question_text_disabled = TRUE]
       ELSE self

QuestionFormInit(self) ==
    disable_fields_conditionally(
        set_initial_data([self EXCEPT !.pc = "constructed"]))

\* The arguments of form_class(data, instance=...) and the clock: a form is
\* bound when it is given data; its initial values are those of its
\* instance, a new Question when none is given.
FormArgs(class, is_bound, data, initial, instance, now) ==
    [pc |-> "args", class |-> class, is_bound |-> is_bound, data |-> data,
     initial |-> initial, instance |-> instance, now |-> now,
     attrs |-> [has_max_vote_count |-> <<>>, max_vote_count |-> <<>>],
     question_text_disabled |-> FALSE, formsets_instance |-> None,
     raised |-> ""]

CheckboxTexts == {PyStr(t, 0) : t \in {"", "on", "false", "False"}}
DateTexts ==
    {PyStr("", 0), PyStr(NoSuchDay, 0)}
    \cup {PyStr(f, t) : f \in {IsoFormat, OtherFormat}, t \in 1..MaxTime}
InitialTimes == {PyNone} \cup {PyDatetime(t) : t \in 1..MaxTime}
Instances == {None, 1}

MaxVoteCountFormArgs ==
    {FormArgs("MaxVoteCountForm", b, d, i, o, 0) :
        b \in BOOLEAN,
        d \in Dicts({"has_max_vote_count"}, CheckboxTexts),
        i \in [has_max_vote_count : {PyBool(TRUE), PyBool(FALSE)}],
        o \in Instances}

QuestionFormArgs ==
    {FormArgs("QuestionForm", b, d, i, o, n) :
        b \in BOOLEAN,
        d \in Dicts({"vote_start", "vote_end"}, DateTexts),
        i \in [vote_start : InitialTimes, vote_end : InitialTimes],
        o \in Instances,
        n \in 0..(MaxTime + 1)}

FormInit ==
    /\ new_form \in {a \in MaxVoteCountFormArgs \cup QuestionFormArgs :
                        a.is_bound \/ a.data = <<>>}
    /\ NoQuestionForm
    /\ row_form = Absent
    /\ listing = Absent
    /\ view = Absent

ConstructMaxVoteCountForm ==
    /\ new_form.pc = "args"
    /\ new_form.class = "MaxVoteCountForm"
    /\ new_form' = MaxVoteCountFormInit(new_form)
    /\ UNCHANGED <<tree, row_form, listing, view>>

ConstructQuestionForm ==
    /\ new_form.pc = "args"
    /\ new_form.class = "QuestionForm"
    /\ new_form' = QuestionFormInit(new_form)
    /\ UNCHANGED <<tree, row_form, listing, view>>

FormNext == ConstructMaxVoteCountForm \/ ConstructQuestionForm

FormSpec == FormInit /\ [][FormNext]_vars

\* ---------------------------------------------- UserFilter.filter_count_gte
Users == 1..MaxUsers
\* The table behind 'user_followed': a row <<follower, followed>> is related
\* to the user it names as followed.
FollowRows == Users \X Users
NULL == <<>>

RECURSIVE SetToSeq(_)
SetToSeq(S) ==
    IF S = {} THEN <<>>
    ELSE LET x == CHOOSE y \in S : TRUE IN <<x>> \o SetToSeq(S \ {x})

RECURSIVE SortedSeq(_)
SortedSeq(S) ==
    IF S = {} THEN <<>>
    ELSE LET x == CHOOSE y \in S : \A z \in S : y <= z
         IN <<x>> \o SortedSeq(S \ {x})

\* The LEFT OUTER JOIN that Count(name) adds: every user of the queryset
\* with each of its related rows, or with NULL when it has none.
RECURSIVE LeftJoin(_, _)
LeftJoin(queryset, follows) ==
    IF queryset = <<>> THEN <<>>
    ELSE LET user == Head(queryset)
             related == {r \in follows : r[2] = user}
             joined == IF related = {} THEN <<NULL>> ELSE SetToSeq(related)
         IN [i \in 1..Len(joined) |-> [user |-> user, name |-> joined[i]]]
            \o LeftJoin(Tail(queryset), follows)

\* GROUP BY the user, COUNT(name): one row for every user of the join, with
\* the number of its joined rows that are not NULL.
RECURSIVE GroupCount(_, _)
GroupCount(joined, seen) ==
    IF joined = <<>> THEN <<>>
    ELSE LET user == Head(joined).user
             name_count ==
                 Cardinality({i \in 1..Len(joined) :
                                 /\ joined[i].user = user
                                 /\ joined[i].name # NULL})
         IN IF user \in seen THEN GroupCount(Tail(joined), seen)
            ELSE <<[user |-> user, name_count |-> name_count]>>
                 \o GroupCount(Tail(joined), seen \cup {user})

annotate_count(queryset, follows) == GroupCount(LeftJoin(queryset, follows), {})

filter_count_gt(queryset, follows, value) ==
    SelectSeq(annotate_count(queryset, follows),
              LAMBDA row : row.name_count > value)

\* qs = queryset.annotate(name_count=Count(name));
\* return qs.filter(name_count__gte=value)
filter_count_gte(queryset, follows, value) ==
    SelectSeq(annotate_count(queryset, follows),
              LAMBDA row : row.name_count >= value)

\* A list of users narrowed by the other filters, the follow table, and the
\* minimum follower count asked for.
ListingInit ==
    /\ \E q \in SUBSET Users, f \in SUBSET FollowRows,
          v \in 0..(MaxUsers + 1) :
          listing = [pc |-> "called", queryset |-> SortedSeq(q),
                     follows |-> f, value |-> v, result |-> <<>>]
    /\ NoQuestionForm
    /\ row_form = Absent
    /\ new_form = Absent
    /\ view = Absent

FilterCountGte ==
    /\ listing.pc = "called"
    /\ listing' =
          [listing EXCEPT
              !.pc = "returned",
              !.result = filter_count_gte(listing.queryset, listing.follows,
                                          listing.value)]
    /\ UNCHANGED <<tree, row_form, new_form, view>>

ListingNext == FilterCountGte

ListingSpec == ListingInit /\ [][ListingNext]_vars

\* ------------------------------------------- GetParamAsFormDataMixin.get
\* The record an update view is routed to (self.get_object()).
ExistingObject == 1

\* form_class(request.GET): the data is the only argument, so the form holds
\* a new Question and that model's initial values.
FormFromGetParams(GET, defaults, now) ==
    QuestionFormInit(FormArgs("QuestionForm", TRUE, GET, defaults, None, now))

\* super().get(): BaseUpdateView.get sets self.object = self.get_object(),
\* BaseCreateView.get sets it to None; then the unbound form of get_form(),
\* built on self.object, is rendered.
DefaultGet(self, defaults) ==
    LET object == IF self.kind = "UpdateView" THEN ExistingObject ELSE None
        get_form ==
            QuestionFormInit(
                FormArgs("QuestionForm", FALSE, <<>>,
                         IF object # None THEN self.stored ELSE defaults,
                         object, self.now))
    IN [self EXCEPT !.pc = "rendered", !.object = object,
                    !.form = get_form, !.by = "super"]

\* GetParamAsFormDataMixin.get. A form whose construction raises leaves the
\* request before self.object is set and without a rendered response.
GetParamAsFormDataMixinGet(self, defaults) ==
    IF self.GET # <<>>
    THEN LET form_ == FormFromGetParams(self.GET, defaults, self.now)
         IN IF form_.pc = "raised"
            THEN [self EXCEPT !.pc = "raised", !.form = form_,
                              !.by = "get_params"]
            ELSE [self EXCEPT
                     !.pc = "rendered",
                     !.object = IF self.kind = "UpdateView"
                                THEN ExistingObject ELSE None,
                     !.form = form_, !.by = "get_params"]
    ELSE DefaultGet(self, defaults)

\* The initial values of a form that holds a new Question.
NewQuestionInitial == [vote_start |-> PyNone, vote_end |-> PyNone]

\* A GET request reaching QuestionCreateView or QuestionUpdateView: its
\* query parameters, the values stored in the record of the update view,
\* and the clock.
ViewInit ==
    /\ \E k \in {"CreateView", "UpdateView"},
          g \in Dicts({"vote_start", "vote_end"}, DateTexts),
          i \in [vote_start : InitialTimes, vote_end : InitialTimes],
          n \in 0..(MaxTime + 1) :
          view = [pc |-> "request", kind |-> k, GET |-> g,
                  stored |-> i, now |-> n,
                  object |-> None, form |-> Absent, by |-> ""]
    /\ NoQuestionForm
    /\ row_form = Absent
    /\ new_form = Absent
    /\ listing = Absent

ViewGet ==
    /\ view.pc = "request"
    /\ view' = GetParamAsFormDataMixinGet(view, NewQuestionInitial)
    /\ UNCHANGED <<tree, row_form, new_form, listing>>

ViewNext == ViewGet

ViewSpec == ViewInit /\ [][ViewNext]_vars

\* ================================================================ claims
Present(v) == v # None /\ v # Invalid

\* is_valid() has run (to its end or to an exception).
Validated == pc # "bound"
\* QuestionForm.clean() has run to its end.
CleanFinished == pc \notin {"bound", "raised"}

OwnFields == IntFields \cup {"has_max_vote_count"}
OwnFieldsWithErrors == {k \in OwnFields : form.errors[k] # <<>>}

RECURSIVE SumLen(_, _)
SumLen(keys, errors) ==
    IF keys = {} THEN 0
    ELSE LET k == CHOOSE x \in keys : TRUE
         IN Len(errors[k]) + SumLen(keys \ {k}, errors)

FormSetErrorTotal ==
    total_error_count(formsets.attachments)
    + total_error_count(formsets.q_followers)
    + total_error_count(formsets.choices)

AggregateErrors ==
    {i \in 1..Len(form.errors[NON_FIELD_ERRORS]) :
        form.errors[NON_FIELD_ERRORS][i].code = AGGREGATE}

\* An error somewhere in the form tree: own fields, formsets, sub-form.
TreeHasError ==
    \/ OwnFieldsWithErrors # {}
    \/ FormSetErrorTotal > 0
    \/ sub_form_errors > 0

\* C1: after clean() has finished the form carries exactly one aggregate
\* non-field error if and only if an error exists in the own fields, in a
\* nested formset or in the nested max_vote_count_control sub-form, and none
\* otherwise.
C1_AggregateIffTreeError ==
    CleanFinished =>
        Cardinality(AggregateErrors) = (IF TreeHasError THEN 1 ELSE 0)

\* C2: the count reported by the aggregate error is the number of individual
\* errors of the form's fields (a field holding two errors counts twice) plus
\* total_error_count() of attachments, q_followers and choices.
C2_AggregateCountsEveryError ==
    CleanFinished =>
        \A i \in AggregateErrors :
            form.errors[NON_FIELD_ERRORS][i].len =
                SumLen(OwnFields, form.errors) + FormSetErrorTotal

\* C3: check_vote_end puts the error 'vote_end_too_early' on vote_end if and
\* only if vote_start and vote_end are both in cleaned_data and vote_end is
\* before vote_start; equal times or a missing time give no such error.
C3_VoteEndTooEarly ==
    Validated =>
        (HasCode(form.errors["vote_end"], "vote_end_too_early")
         <=> /\ Present(submitted.vote_start)
             /\ Present(submitted.vote_end)
             /\ submitted.vote_end < submitted.vote_start)

C3_Witness ==
    /\ Validated
    /\ HasCode(form.errors["vote_end"], "vote_end_too_early")
    /\ submitted.vote_end < submitted.vote_start

\* Two rows not marked for deletion name the same follower.
DuplicateFollower(forms) ==
    \E i, j \in LiveRows(forms) :
        /\ i # j
        /\ Present(forms[i].follower)
        /\ forms[i].follower = forms[j].follower

\* C4: whenever two or more rows of q_followers that are not marked for
\* deletion name the same follower, the formset's clean() leaves exactly one
\* non-field error with code 'unique'.
C4_OneUniqueError ==
    (formsets.q_followers.validated /\ DuplicateFollower(rows.q_followers))
        => CountCode(formsets.q_followers.non_form_errors, "unique") = 1

\* C5: whatever the cleaned values, absent ones included, the four
\* cross-checks of clean() run to completion without raising.
C5_ChecksNeverRaise == Validated => form.raised # "TypeError"

\* C6: with has_max_vote_count set and total_vote_count greater than a
\* max_vote_count of zero or more, clean() puts 'total_vote_count_too_big' on
\* max_vote_count; without has_max_vote_count it never does.
C6_TotalWithinMax ==
    Validated =>
        /\ (/\ submitted.has_max_vote_count
            /\ Present(submitted.total_vote_count)
            /\ Present(submitted.max_vote_count)
            /\ submitted.max_vote_count >= 0
            /\ submitted.total_vote_count > submitted.max_vote_count)
           => HasCode(form.errors["max_vote_count"],
                      "total_vote_count_too_big")
        /\ ~submitted.has_max_vote_count
           => ~HasCode(form.errors["max_vote_count"],
                       "total_vote_count_too_big")

\* The number of choices the question will have.
NumChoices == Cardinality(LiveRows(rows.choices))

\* C7: an accepted Question form has min_selection <= max_selection and
\* neither of them above the number of choices not marked for deletion (a
\* submission breaking one of these gets a field error on min_selection or
\* max_selection, so it is not accepted).
C7_SelectionWithinChoices ==
    pc \in {"valid", "form_saved", "forms_saved", "saved"} =>
        /\ (Present(submitted.min_selection)
            /\ Present(submitted.max_selection))
           => submitted.min_selection <= submitted.max_selection
        /\ Present(submitted.min_selection)
           => submitted.min_selection <= NumChoices
        /\ Present(submitted.max_selection)
           => submitted.max_selection <= NumChoices

\* C8: check_max_vote_count puts 'max_vote_count_required' on max_vote_count
\* if and only if has_max_vote_count is set and max_vote_count is absent, and
\* 'max_vote_count_positive' whenever max_vote_count is present and not
\* positive, with or without has_max_vote_count.
C8_MaxVoteCountRequiredPositive ==
    Validated =>
        /\ HasCode(form.errors["max_vote_count"], "max_vote_count_required")
           <=> (submitted.has_max_vote_count
                /\ ~Present(submitted.max_vote_count))
        /\ (Present(submitted.max_vote_count)
            /\ submitted.max_vote_count <= 0)
           => HasCode(form.errors["max_vote_count"],
                      "max_vote_count_positive")

ChildWrites == {i \in 1..Len(db) : db[i].kind # "Question"}

C10_HandedChildCarriesParent ==
    \A i \in 1..Len(handed) : handed[i].question = "question"

C10_Witness ==
    /\ pc = "saved"
    /\ ~commit
    /\ \E i \in LiveRows(rows.attachments) :
          rows.attachments[i].question = "other_question"
    /\ handed # <<>>

\* C11: FormSetForm.full_clean() leaves no error under the parent key, and
\* every other entry that the base full_clean recorded, field or non-field,
\* is still there with the same errors; it adds no entry.
C11_OnlyParentKeyErrorRemoved ==
    row_form.pc = "cleaned" =>
        /\ row_form.parent_instance_field \notin DOMAIN row_form.errors
        /\ DOMAIN row_form.errors =
              DOMAIN row_form.base_errors \ {row_form.parent_instance_field}
        /\ \A k \in DOMAIN row_form.errors :
              row_form.errors[k] = row_form.base_errors[k]

C11_Witness ==
    /\ row_form.pc = "cleaned"
    /\ row_form.parent_instance_field = "question"
    /\ "question" \in DOMAIN row_form.base_errors
    /\ "follower" \in DOMAIN row_form.errors
    /\ NON_FIELD_ERRORS \in DOMAIN row_form.errors

\* The live value of a field as the claims word it: the submitted value of
\* a bound form, the initial value of an unbound one.
Checked(data) ==
    /\ "has_max_vote_count" \in DOMAIN data
    /\ data["has_max_vote_count"].s \notin {"", "false", "False"}
LiveToggle ==
    IF new_form.is_bound THEN Checked(new_form.data)
    ELSE new_form.initial.has_max_vote_count.b

Constructed(class) == new_form.pc = "constructed" /\ new_form.class = class

\* C12: after MaxVoteCountForm is constructed, with the live value of
\* has_max_vote_count (submitted when bound, initial otherwise) true the
\* max_vote_count widget is marked required and not disabled, otherwise it
\* is marked disabled with an empty value and not required; the
\* has_max_vote_count widget always carries data-reload-form.
C12_RequiredOrDisabledByLiveToggle ==
    Constructed("MaxVoteCountForm") =>
        LET attrs == new_form.attrs.max_vote_count
        IN /\ LiveToggle =>
                 /\ "required" \in DOMAIN attrs /\ attrs["required"]
                 /\ "disabled" \notin DOMAIN attrs
           /\ ~LiveToggle =>
                 /\ "disabled" \in DOMAIN attrs /\ attrs["disabled"]
                 /\ "value" \in DOMAIN attrs /\ attrs["value"] = ""
                 /\ "required" \notin DOMAIN attrs
           /\ "data-reload-form" \in DOMAIN new_form.attrs.has_max_vote_count
           /\ new_form.attrs.has_max_vote_count["data-reload-form"]

\* A bound form whose unchecked box overrides an initial True.
C12_Witness ==
    /\ Constructed("MaxVoteCountForm")
    /\ new_form.is_bound
    /\ ~Checked(new_form.data)
    /\ new_form.initial.has_max_vote_count.b
    /\ "disabled" \in DOMAIN new_form.attrs.max_vote_count

\* The live value of a time field: the submitted text of a bound form, the
\* initial value of an unbound one; the instant it stands for, if any.
LiveValue(field_name) ==
    IF new_form.is_bound THEN Get(new_form.data, field_name)
    ELSE new_form.initial[field_name]
IsTime(v) ==
    \/ v.type = "datetime"
    \/ v.type = "str" /\ v.s \in {IsoFormat, OtherFormat}
InProgress ==
    /\ IsTime(LiveValue("vote_start"))
    /\ IsTime(LiveValue("vote_end"))
    /\ LiveValue("vote_start").t <= new_form.now
    /\ new_form.now <= LiveValue("vote_end").t

\* C14: a constructed QuestionForm has question_text disabled if and only
\* if vote_start and vote_end both have a value (submitted when bound,
\* initial otherwise) and vote_start <= now <= vote_end.
C14_DisabledIffInProgress ==
    Constructed("QuestionForm") =>
        (new_form.question_text_disabled <=> InProgress)

\* The number of 'user_followed' records of a user.
FollowerCount(user) ==
    Cardinality({r \in listing.follows : r[2] = user})
InQueryset(user) ==
    \E i \in 1..Len(listing.queryset) : listing.queryset[i] = user
Returned(user) ==
    {i \in 1..Len(listing.result) : listing.result[i].user = user}

\* C13: filter_count_gte returns every user of the input queryset whose
\* number of 'user_followed' records is at least the value, exactly once,
\* and no other user.
C13_ExactlyUsersAtOrAboveThreshold ==
    listing.pc = "returned" =>
        \A user \in Users :
            Cardinality(Returned(user)) =
                (IF InQueryset(user) /\ FollowerCount(user) >= listing.value
                 THEN 1 ELSE 0)

\* One user exactly at the threshold is returned, another below it dropped.
C13_Witness ==
    /\ listing.pc = "returned"
    /\ listing.value > 0
    /\ \E u, w \in Users :
          /\ InQueryset(u) /\ FollowerCount(u) = listing.value
          /\ Returned(u) # {}
          /\ InQueryset(w) /\ FollowerCount(w) < listing.value
          /\ Returned(w) = {}

\* C15: a GET with query parameters renders a form bound to them and
\* writes nothing, with self.object the existing record in an update view
\* and None in a create view; a GET without query parameters is served by
\* the default get; and in an update view the form rendered from query
\* parameters holds the existing record as its instance and shows that
\* record's formsets.
C15_GetParamsFormOfRecord ==
    view.pc = "rendered" =>
        /\ db = <<>>
        /\ view.GET = <<>> => view.by = "super"
        /\ view.GET # <<>> =>
              /\ view.by = "get_params"
              /\ view.form.is_bound
              /\ view.form.data = view.GET
              /\ view.object = (IF view.kind = "UpdateView"
                                THEN ExistingObject ELSE None)
              /\ view.kind = "UpdateView" =>
                    /\ view.form.instance = ExistingObject
                    /\ view.form.formsets_instance = ExistingObject

\* clean() of q_followers took its duplicate branch: the 'unique' error is
\* there, or the call that adds it was reached.
DuplicateReported ==
    \/ HasCode(formsets.q_followers.non_form_errors, "unique")
    \/ formsets.q_followers.raised # ""

\* C16: QuestionFollowersFormSet.clean() reports a duplicate only when two
\* rows not marked for deletion name the same actual follower: rows whose
\* follower is missing from cleaned_data are no duplicates of one another,
\* and a row marked for deletion never counts.
C16_DuplicateOnlyForSameFollower ==
    (formsets.q_followers.validated /\ DuplicateReported)
        => DuplicateFollower(rows.q_followers)

====
